---- MODULE Spec2Model ----
(***************************************************************************)
(* Model of Map_display (src/Eventures/src/Map_display.cpp): the marker    *)
(* aggregation of createGraphics, the search / paging bookkeeping of       *)
(* searchHandler and checkPage, the marker cursor of switchViews and the   *)
(* click resolution installed by connectSignals.                           *)
(*                                                                         *)
(* Strings are sequences of character codes, so that std::string ordering  *)
(* and std::stod are computed rather than assumed.  Doubles are fixed      *)
(* point integers (value * Scale).                                         *)
(***************************************************************************)
EXTENDS Integers, Sequences, FiniteSets, TLC

VARIABLES
    dataset,        \* what the remote event source holds: "paged" or "mixed" responses
    m_mapView,      \* "null" until setMapView stored the view, then "view"
    connected,      \* connectSignals() has installed the two lambdas
    overlays,       \* m_mapView->graphicsOverlays(): sequence of overlays, each a sequence of graphics
    activePoints,   \* Map_display::activePoints (std::vector<Point>)
    results,        \* Map_display::results (running results-seen counter)
    currIndex,      \* Map_display::currIndex
    params,         \* the active request parameters held by get_events (request.h)
    eventarr,       \* createGraphics' local eventarr of the last aggregation pass
    points,         \* createGraphics' local std::map points of the last aggregation pass
    focus,          \* centre of the viewpoint last requested from the map view
    pending,        \* identifyGraphicsOverlay task in flight (its eventual result)
    lastPage,       \* page argument of the most recent searchHandler call, -1 before any
    op,             \* the handler that ran last, with its arguments and return value
    oob,            \* activePoints was read outside [0, size)
    status          \* "running", or "aborted" once an exception left a handler / a bad read crashed

vars == <<dataset, m_mapView, connected, overlays, activePoints, results, currIndex, params,
          eventarr, points, focus, pending, lastPage, op, oob, status>>

----------------------------------------------------------------------------
(* Bounds *)

MaxShort == 2        \* "mixed" responses: every sequence of up to MaxShort records
MaxDistinct == 3     \* "paged" responses: pages over 1..MaxDistinct distinct coordinates
MaxPage == 2         \* page arguments 0..MaxPage
MaxResults == 41     \* cap of the running counter results

(* Program constants *)

PageSize == 20       \* "20" in searchHandler / checkPage
Scale == 100         \* fixed point: a double d is the integer d * Scale
FracDigits == 2      \* Scale = 10^FracDigits

----------------------------------------------------------------------------
(* Strings: sequences of ASCII codes                                        *)

ChSpace == 32
ChPlus == 43
ChMinus == 45
ChDot == 46
ChZero == 48

IsDigit(c) == c \in 48..57

\* std::string operator< (lexicographic on unsigned char, shorter prefix first)
RECURSIVE StrLess(_, _)
StrLess(a, b) ==
    IF a = <<>> THEN b # <<>>
    ELSE IF b = <<>> THEN FALSE
    ELSE IF Head(a) # Head(b) THEN Head(a) < Head(b)
    ELSE StrLess(Tail(a), Tail(b))

\* std::pair<std::string, std::string> operator<
KeyLess(k1, k2) ==
    \/ StrLess(k1[1], k2[1])
    \/ (~StrLess(k2[1], k1[1]) /\ StrLess(k1[2], k2[2]))

Drop(s, n) == SubSeq(s, n + 1, Len(s))

RECURSIVE SkipSpaces(_)
SkipSpaces(s) == IF s # <<>> /\ Head(s) = ChSpace THEN SkipSpaces(Tail(s)) ELSE s

RECURSIVE TakeDigits(_)
TakeDigits(s) ==
    IF s # <<>> /\ IsDigit(Head(s)) THEN <<Head(s)>> \o TakeDigits(Tail(s)) ELSE <<>>

RECURSIVE DigitsValue(_)
DigitsValue(d) ==
    IF d = <<>> THEN 0
    ELSE DigitsValue(SubSeq(d, 1, Len(d) - 1)) * 10 + (d[Len(d)] - ChZero)

\* the first FracDigits fraction digits, padded with zeros
FracPart(fp) == [i \in 1..FracDigits |-> IF i <= Len(fp) THEN fp[i] ELSE ChZero]

\* std::stod: optional blanks and sign, digits, optional '.' and digits; the
\* longest such prefix is converted, and no digit at all throws
\* std::invalid_argument (ok = FALSE).
stod(s) ==
    LET t    == SkipSpaces(s)
        neg  == t # <<>> /\ Head(t) = ChMinus
        body == IF t # <<>> /\ Head(t) \in {ChPlus, ChMinus} THEN Tail(t) ELSE t
        ip   == TakeDigits(body)
        rest == Drop(body, Len(ip))
        fp   == IF rest # <<>> /\ Head(rest) = ChDot THEN TakeDigits(Tail(rest)) ELSE <<>>
        mag  == DigitsValue(ip) * Scale + DigitsValue(FracPart(fp))
    IN  IF ip = <<>> /\ fp = <<>>
        THEN [ok |-> FALSE, val |-> 0]
        ELSE [ok |-> TRUE, val |-> IF neg THEN 0 - mag ELSE mag]

----------------------------------------------------------------------------
(* Raw records and the event source                                         *)

S_10_0 == <<49, 48, 46, 48>>          \* "10.0"
S_10_00 == <<49, 48, 46, 48, 48>>     \* "10.00"
S_9_5 == <<57, 46, 53>>               \* "9.5"
S_20_0 == <<50, 48, 46, 48>>          \* "20.0"
S_bad == <<120>>                      \* "x"

Rec(lat, lng) == [lat |-> lat, lng |-> lng]

\* the records the source can deliver; the last one has an unparsable lat.
\* As strings "10.0" < "10.00" and "20.0" < "9.5"; as numbers 10.0 = 10.00
\* and 9.5 < 20.0.
Pool == << Rec(S_10_0, S_20_0), Rec(S_10_0, S_9_5), Rec(S_10_00, S_20_0),
           Rec(S_bad, S_20_0) >>

PoolSet == {Pool[i] : i \in 1..Len(Pool)}

GoodCount == Len(Pool) - 1       \* Pool[1..GoodCount] have parsable coordinates

RECURSIVE SeqsUpTo(_, _)
SeqsUpTo(S, n) ==
    IF n = 0 THEN {<<>>}
    ELSE LET shorter == SeqsUpTo(S, n - 1)
         IN  shorter \cup {Append(q, r) : q \in {p \in shorter : Len(p) = n - 1}, r \in S}

\* a response of n records spread over the first k pool records
Spread(n, k) == [i \in 1..n |-> Pool[(i % k) + 1]]

\* "mixed": every sequence of up to MaxShort pool records, in every order, and
\* every sequence of three parsable records that are not all the same
MixedResponses ==
    SeqsUpTo(PoolSet, MaxShort)
        \cup {<<Pool[f[1]], Pool[f[2]], Pool[f[3]]>> :
                 f \in {g \in [1..3 -> 1..3] : g[1] # g[2] \/ g[2] # g[3]}}

\* "paged": empty, nearly full and full pages over 1..MaxDistinct distinct
\* coordinates, and a full page that ends in the unparsable record
PagedResponses ==
    {<<>>}
        \cup {Spread(n, k) : n \in {PageSize - 1, PageSize}, k \in 1..MaxDistinct}
        \cup {Append(Spread(PageSize - 1, 2), Pool[Len(Pool)])}

Responses(ds) == IF ds = "mixed" THEN MixedResponses ELSE PagedResponses

NoQuery == <<>>
Queries == {<<113>>}                  \* "q"

\* get_events(text, ..., limit, offset, false): sets the active parameters
SetParams(text, limit, offset) == [query |-> text, limit |-> limit, offset |-> offset]

\* get_events(): what the source may answer for the active parameters
GetEvents(ds, p) == {r \in Responses(ds) : Len(r) <= p.limit}

\* get_events() as the handlers see it: the answer of the source, or no record
\* at all when the source is unavailable (the call has no error channel)
Fetch(ds, p) ==
    {[failed |-> FALSE, events |-> r] : r \in GetEvents(ds, p)}
        \cup {[failed |-> TRUE, events |-> <<>>]}

----------------------------------------------------------------------------
(* createGraphics                                                           *)

Point(x, y) == [x |-> x, y |-> y]

NoId == -1           \* graphic without an "id" property

GarbagePoint == Point(-99999, -99999)

\* Mutation of MapIncrement: the map is keyed by the parsed numbers, so that
\* keys of equal value are one entry.
SameValue(k1, k2) == stod(k1[1]) = stod(k2[1]) /\ stod(k1[2]) = stod(k2[2])

RECURSIVE MapIncrement_numericKey(_, _)
MapIncrement_numericKey(m, k) ==
    IF m = <<>> THEN << [key |-> k, count |-> 1] >>
    ELSE IF SameValue(Head(m).key, k)
         THEN << [key |-> Head(m).key, count |-> Head(m).count + 1] >> \o Tail(m)
    ELSE IF KeyLess(k, Head(m).key) THEN << [key |-> k, count |-> 1] >> \o m
    ELSE << Head(m) >> \o MapIncrement_numericKey(Tail(m), k)

\* Mutation of MapIncrement: a new key is put behind the existing ones
\* (arrival order), as a container without key order would.
RECURSIVE MapIncrement_arrivalOrder(_, _)
MapIncrement_arrivalOrder(m, k) ==
    IF m = <<>> THEN << [key |-> k, count |-> 1] >>
    ELSE IF Head(m).key = k THEN << [key |-> k, count |-> Head(m).count + 1] >> \o Tail(m)
    ELSE << Head(m) >> \o MapIncrement_arrivalOrder(Tail(m), k)

\* points[key] += 1 on a std::map kept in ascending key order
RECURSIVE MapIncrement(_, _)
MapIncrement(m, k) ==
    IF m = <<>> THEN << [key |-> k, count |-> 1] >>
    ELSE IF Head(m).key = k THEN << [key |-> k, count |-> Head(m).count + 1] >> \o Tail(m)
    ELSE IF KeyLess(k, Head(m).key) THEN << [key |-> k, count |-> 1] >> \o m
    ELSE << Head(m) >> \o MapIncrement(Tail(m), k)

\* the counting loop over eventarr
RECURSIVE CountPoints(_)
CountPoints(evs) ==
    IF evs = <<>> THEN <<>>
    ELSE MapIncrement(CountPoints(SubSeq(evs, 1, Len(evs) - 1)),
                      << evs[Len(evs)].lat, evs[Len(evs)].lng >>)

MarkerGraphic(p, id) == [kind |-> "marker", point |-> p, id |-> id, text |-> 0]
CircleGraphic(p) == [kind |-> "circle", point |-> p, id |-> NoId, text |-> 0]
TextGraphic(p, occ) == [kind |-> "text", point |-> p, id |-> NoId, text |-> occ]

\* Mutation of BuildGraphics: the id is incremented before it is stored
\* (setProperty("id", ++index)).
RECURSIVE BuildGraphics_preIncrement(_, _, _, _)
BuildGraphics_preIncrement(pts, index, ap, gr) ==
    IF index >= Len(pts) THEN [activePoints |-> ap, graphics |-> gr, threw |-> FALSE]
    ELSE LET location == pts[index + 1]
             lat == stod(location.key[1])
             lng == stod(location.key[2])
             occurrences == location.count
             point == Point(lng.val, lat.val)
             extra == IF occurrences > 1
                      THEN << CircleGraphic(point), TextGraphic(point, occurrences) >>
                      ELSE <<>>
         IN  IF ~lat.ok \/ ~lng.ok
             THEN [activePoints |-> ap, graphics |-> gr, threw |-> TRUE]
             ELSE BuildGraphics_preIncrement(pts, index + 1, Append(ap, point),
                                gr \o << MarkerGraphic(point, index + 1) >> \o extra)

\* the marker loop over points: index is both the map position reached and
\* the next marker id
RECURSIVE BuildGraphics(_, _, _, _)
BuildGraphics(pts, index, ap, gr) ==
    IF index >= Len(pts) THEN [activePoints |-> ap, graphics |-> gr, threw |-> FALSE]
    ELSE LET location == pts[index + 1]
             lat == stod(location.key[1])
             lng == stod(location.key[2])
             occurrences == location.count
             point == Point(lng.val, lat.val)
             extra == IF occurrences > 1
                      THEN << CircleGraphic(point), TextGraphic(point, occurrences) >>
                      ELSE <<>>
         IN  IF ~lat.ok \/ ~lng.ok
             THEN [activePoints |-> ap, graphics |-> gr, threw |-> TRUE]
             ELSE BuildGraphics(pts, index + 1, Append(ap, point),
                                gr \o << MarkerGraphic(point, index) >> \o extra)

\* createGraphics(overlay) on the fetched records evs, with the members res and ap
\* the two loops of createGraphics, tabulated for every response of the source
Aggregated ==
    [evs \in MixedResponses \cup PagedResponses |->
        LET pts == CountPoints(evs)
        IN  [points |-> pts, built |-> BuildGraphics(pts, 0, <<>>, <<>>)]]

createGraphics(evs, res, ap) ==
    LET pts == Aggregated[evs].points
        built == Aggregated[evs].built
    IN  IF pts = <<>>
        THEN [results |-> res + Len(evs), points |-> pts, activePoints |-> ap,
              graphics |-> <<>>, threw |-> FALSE]
        ELSE [results |-> res + Len(evs), points |-> pts,
              activePoints |-> built.activePoints,
              graphics |-> built.graphics, threw |-> built.threw]

----------------------------------------------------------------------------
(* State after construction                                                 *)

NoPoint == Point(0, 0)

\* centre of setupViewpoint
Wellington == Point(17307, -4135)

NoTask == <<>>

Op(name, page, next, ret) ==
    [name |-> name, page |-> page, next |-> next, ret |-> ret,
     probed |-> FALSE, pLimit |-> 0, pOffset |-> 0, pSize |-> 0, failed |-> FALSE]

\* The members are declared in Map_display.h: the counters start at 0, the
\* point list empty, the view unset.  get_events starts with its default
\* parameters (first page of PageSize records, no query).
Constructed ==
    /\ m_mapView = "null"
    /\ connected = FALSE
    /\ overlays = <<>>
    /\ activePoints = <<>>
    /\ results = 0
    /\ currIndex = 0
    /\ params = SetParams(NoQuery, PageSize, 0)
    /\ eventarr = <<>>
    /\ points = <<>>
    /\ focus = NoPoint
    /\ pending = NoTask
    /\ lastPage = -1
    /\ op = Op("none", 0, FALSE, 0)
    /\ oob = FALSE
    /\ status = "running"

Init == dataset = "paged" /\ Constructed

InitAgg == dataset = "mixed" /\ Constructed

----------------------------------------------------------------------------
(* Handlers.  searchHandler, switchViews and checkPage are invoked from the *)
(* user interface, which exists once setMapView stored the view; the two    *)
(* lambdas run once connectSignals installed them.  A read of activePoints  *)
(* outside [0, size) is undefined: it sets oob, yields GarbagePoint and     *)
(* either goes on or ends the process.  An exception of std::stod leaves    *)
(* the handler and ends the process (status = "aborted").                   *)

InRange(i) == 0 <= i /\ i < Len(activePoints)

\* setMapView(mapView) with a new, non-null view: the initial load
SetMapView ==
    /\ status = "running"
    /\ m_mapView = "null"
    /\ \E fetch \in Fetch(dataset, params) :
         \E cg \in {createGraphics(fetch.events, results, activePoints)} :
             /\ cg.results <= MaxResults
             /\ m_mapView' = "view"
             /\ results' = cg.results
             /\ eventarr' = fetch.events
             /\ op' = [Op("setMapView", 0, FALSE, 0) EXCEPT !.failed = fetch.failed]
             /\ points' = cg.points
             /\ activePoints' = cg.activePoints
             /\ IF cg.threw
                THEN /\ status' = "aborted"
                     /\ UNCHANGED <<overlays, connected, focus>>
                ELSE /\ overlays' = Append(overlays, cg.graphics)
                     /\ connected' = TRUE
                     /\ focus' = Wellington
                     /\ UNCHANGED status
    /\ UNCHANGED <<dataset, currIndex, params, pending, lastPage, oob>>

\* Mutation of SearchHandler: the exception of createGraphics is caught and
\* the handler returns, the session goes on.
SearchHandler_catches(text, page) ==
    /\ status = "running"
    /\ m_mapView = "view"
    /\ LET offset == page * PageSize
           res0 == IF page > 0 THEN 0 ELSE results
           newParams == SetParams(text, PageSize, offset)
       IN  /\ params' = newParams
           /\ \E fetch \in Fetch(dataset, newParams) :
                \E cg \in {createGraphics(fetch.events, res0, activePoints)} :
                    /\ cg.results <= MaxResults
                    /\ results' = cg.results
                    /\ eventarr' = fetch.events
                    /\ op' = [Op("searchHandler", page, FALSE, 0) EXCEPT !.failed = fetch.failed]
                    /\ points' = cg.points
                    /\ activePoints' = cg.activePoints
                    /\ IF cg.threw
                       THEN /\ overlays' = <<>>
                            /\ UNCHANGED <<focus, oob, status>>
                       ELSE /\ overlays' = << cg.graphics >>
                            /\ IF cg.activePoints # <<>>
                               THEN /\ focus' = cg.activePoints[1]
                                    /\ UNCHANGED <<oob, status>>
                               ELSE /\ oob' = TRUE
                                    /\ focus' = GarbagePoint
                                    /\ status' \in {"running", "aborted"}
    /\ lastPage' = page
    /\ UNCHANGED <<dataset, m_mapView, connected, currIndex, pending>>

\* searchHandler(text, page)
SearchHandler(text, page) ==
    /\ status = "running"
    /\ m_mapView = "view"
    /\ LET offset == page * PageSize
           res0 == IF page > 0 THEN 0 ELSE results
           newParams == SetParams(text, PageSize, offset)
       IN  /\ params' = newParams
           /\ \E fetch \in Fetch(dataset, newParams) :
                \E cg \in {createGraphics(fetch.events, res0, activePoints)} :
                    /\ cg.results <= MaxResults
                    /\ results' = cg.results
                    /\ eventarr' = fetch.events
                    /\ op' = [Op("searchHandler", page, FALSE, 0) EXCEPT !.failed = fetch.failed]
                    /\ points' = cg.points
                    /\ activePoints' = cg.activePoints
                    /\ IF cg.threw
                       THEN /\ status' = "aborted"
                            /\ overlays' = <<>>
                            /\ UNCHANGED <<focus, oob>>
                       ELSE /\ overlays' = << cg.graphics >>
                            /\ IF cg.activePoints # <<>>
                               THEN /\ focus' = cg.activePoints[1]
                                    /\ UNCHANGED <<oob, status>>
                               ELSE /\ oob' = TRUE
                                    /\ focus' = GarbagePoint
                                    /\ status' \in {"running", "aborted"}
    /\ lastPage' = page
    /\ UNCHANGED <<dataset, m_mapView, connected, currIndex, pending>>

\* Mutation of WrapIndex: the upper test is index >= len.
WrapIndex_offByOne(index, len) == IF index >= len THEN 0 ELSE IF index < 0 THEN len ELSE index

\* index = (index>len) ? 0 : (index<0) ? len : index
WrapIndex(index, len) == IF index > len THEN 0 ELSE IF index < 0 THEN len ELSE index

\* the index switchViews computes from the cursor cur over n points
StepIndex(cur, next, n) == WrapIndex(cur + (IF next THEN 1 ELSE -1), n - 1)

\* Mutation of SwitchViews: the new index is stored in results instead of
\* currIndex.
SwitchViews_wrongMember(next) ==
    /\ status = "running"
    /\ m_mapView = "view"
    /\ LET index == StepIndex(currIndex, next, Len(activePoints))
       IN  IF InRange(index)
           THEN /\ focus' = activePoints[index + 1]
                /\ results' = index
                /\ UNCHANGED <<oob, status>>
           ELSE /\ oob' = TRUE
                /\ focus' = GarbagePoint
                /\ \/ status' = "running" /\ results' = 0
                   \/ status' = "aborted" /\ results' = results
    /\ op' = Op("switchViews", 0, next, 0)
    /\ UNCHANGED <<dataset, m_mapView, connected, overlays, activePoints, currIndex, params,
                   eventarr, points, pending, lastPage>>

\* switchViews(next)
SwitchViews(next) ==
    /\ status = "running"
    /\ m_mapView = "view"
    /\ LET index == StepIndex(currIndex, next, Len(activePoints))
       IN  IF InRange(index)
           THEN /\ focus' = activePoints[index + 1]
                /\ currIndex' = index
                /\ UNCHANGED <<oob, status>>
           ELSE /\ oob' = TRUE
                /\ focus' = GarbagePoint
                /\ \/ status' = "running" /\ currIndex' = index
                   \/ status' = "aborted" /\ currIndex' = currIndex
    /\ op' = Op("switchViews", 0, next, 0)
    /\ UNCHANGED <<dataset, m_mapView, connected, overlays, activePoints, results, params,
                   eventarr, points, pending, lastPage>>

\* what an identify task started on the first overlay can deliver (max = 1 graphic)
IdentifyResults ==
    { [null |-> TRUE, graphics |-> <<>>], [null |-> FALSE, graphics |-> <<>>] }
        \cup { [null |-> FALSE, graphics |-> << overlays[1][i] >>] : i \in 1..Len(overlays[1]) }

\* mouseClicked lambda: starts identifyGraphicsOverlay on the first overlay
MouseClicked ==
    /\ status = "running"
    /\ connected
    /\ overlays # <<>>
    /\ pending = NoTask
    /\ \E r \in IdentifyResults : pending' = << r >>
    /\ op' = Op("mouseClicked", 0, FALSE, 0)
    /\ UNCHANGED <<dataset, m_mapView, connected, overlays, activePoints, results, currIndex,
                   params, eventarr, points, focus, lastPage, oob, status>>

\* QVariant::toInt() of the graphic's "id" property (0 when the property is not set)
IdToInt(g) == IF g.id = NoId THEN 0 ELSE g.id

\* identifyGraphicsOverlayCompleted lambda
IdentifyCompleted ==
    /\ status = "running"
    /\ connected
    /\ pending # NoTask
    /\ pending' = NoTask
    /\ LET identifyResult == pending[1]
       IN  IF ~identifyResult.null /\ identifyResult.graphics # <<>>
           THEN LET id == IdToInt(identifyResult.graphics[1])
                IN  /\ op' = Op("identifyCompleted", id, FALSE, 0)
                    /\ IF InRange(id)
                       THEN /\ focus' = activePoints[id + 1]
                            /\ UNCHANGED <<oob, status>>
                       ELSE /\ oob' = TRUE
                            /\ focus' = GarbagePoint
                            /\ status' \in {"running", "aborted"}
           ELSE /\ op' = Op("identifyCompleted", NoId, FALSE, 0)
                /\ UNCHANGED <<focus, oob, status>>
    /\ UNCHANGED <<dataset, m_mapView, connected, overlays, activePoints, results, currIndex,
                   params, eventarr, points, lastPage>>

\* int page = (results/20)-1
PageOf(res) == (res \div PageSize) - 1

\* checkPage(next)
CheckPage(next) ==
    /\ status = "running"
    /\ m_mapView = "view"
    /\ LET page == PageOf(results)
       IN  IF next
           THEN IF results % PageSize = 0
                THEN LET probe == SetParams(NoQuery, 1, page + 1)
                     IN  /\ params' = probe
                         /\ \E r \in GetEvents(dataset, probe) :
                              op' = [ Op("checkPage", 0, next,
                                         IF Len(r) >= 1 THEN page + 1 ELSE -1)
                                      EXCEPT !.probed = TRUE, !.pLimit = probe.limit,
                                             !.pOffset = probe.offset, !.pSize = Len(r) ]
                ELSE /\ op' = Op("checkPage", 0, next, -1)
                     /\ UNCHANGED params
           ELSE /\ op' = Op("checkPage", 0, next, IF page > 0 THEN page - 1 ELSE -1)
                /\ UNCHANGED params
    /\ UNCHANGED <<dataset, m_mapView, connected, overlays, activePoints, results, currIndex,
                   eventarr, points, focus, pending, lastPage, oob, status>>

Next ==
    \/ SetMapView
    \/ \E text \in Queries, page \in 0..MaxPage : SearchHandler(text, page)
    \/ \E next \in BOOLEAN : SwitchViews(next)
    \/ MouseClicked
    \/ IdentifyCompleted
    \/ \E next \in BOOLEAN : CheckPage(next)

Spec == Init /\ [][Next]_vars

\* the aggregation passes alone, over the "mixed" responses
NextAgg ==
    \/ SetMapView
    \/ \E text \in Queries, page \in 0..MaxPage : SearchHandler(text, page)

SpecAgg == InitAgg /\ [][NextAgg]_vars

TypeOK ==
    /\ results \in 0..MaxResults
    /\ status \in {"running", "aborted"}
    /\ Len(overlays) <= 1

----------------------------------------------------------------------------
(* Vocabulary of the properties                                             *)

KeyOf(r) == << r.lat, r.lng >>

Parsable(r) == stod(r.lat).ok /\ stod(r.lng).ok

AllParsable(evs) == \A i \in 1..Len(evs) : Parsable(evs[i])

KeysOf(evs) == {KeyOf(evs[i]) : i \in 1..Len(evs)}

Carrying(evs, k) == Cardinality({i \in 1..Len(evs) : KeyOf(evs[i]) = k})

RECURSIVE SumCounts(_)
SumCounts(m) == IF m = <<>> THEN 0 ELSE Head(m).count + SumCounts(Tail(m))

IsMarker(g) == g.kind = "marker"

Markers(gr) == SelectSeq(gr, IsMarker)

SameBag(a, b) ==
    /\ Len(a) = Len(b)
    /\ \A r \in PoolSet :
         Cardinality({i \in 1..Len(a) : a[i] = r}) = Cardinality({i \in 1..Len(b) : b[i] = r})

\* the last handler was an aggregation pass over parsable records
PassDone == op.name \in {"setMapView", "searchHandler"} /\ AllParsable(eventarr)

----------------------------------------------------------------------------
(* C1: after an aggregation pass over records with parsable coordinates     *)
(* there is exactly one point per distinct (lat-string, lng-string) pair,   *)
(* the occurrences of each point are the number of records carrying that    *)
(* exact pair of strings, and the occurrences sum to the number of records. *)
C1_OnePointPerStringPair ==
    PassDone =>
        /\ {points[i].key : i \in 1..Len(points)} = KeysOf(eventarr)
        /\ Len(points) = Cardinality(KeysOf(eventarr))
        /\ \A i \in 1..Len(points) : points[i].count = Carrying(eventarr, points[i].key)
        /\ SumCounts(points) = Len(eventarr)
        /\ overlays # <<>> => Len(Markers(overlays[1])) = Cardinality(KeysOf(eventarr))
        /\ eventarr # <<>> => Len(activePoints) = Cardinality(KeysOf(eventarr))

\* "10.0" twice and "10.00" once at the same longitude: two points, 2 + 1 records
C1_Witness ==
    /\ PassDone
    /\ op.name = "searchHandler"
    /\ eventarr = << Pool[1], Pool[3], Pool[1] >>
    /\ Len(points) = 2
    /\ points[1].count = 2
    /\ points[2].count = 1
    /\ Len(activePoints) = 2

(* C2: the aggregation is order-independent: the point list is ascending    *)
(* in the lexicographic order of the (lat-string, lng-string) pairs, holds  *)
(* the points of exactly the input's pairs, and every permutation of the    *)
(* input records yields the same points, counts and positions.              *)
C2_OrderIndependent ==
    (PassDone /\ eventarr # <<>>) =>
        /\ \A i \in 1..Len(points), j \in 1..Len(points) :
             i < j => \/ StrLess(points[i].key[1], points[j].key[1])
                      \/ /\ points[i].key[1] = points[j].key[1]
                         /\ StrLess(points[i].key[2], points[j].key[2])
        /\ {points[i].key : i \in 1..Len(points)} = KeysOf(eventarr)
        /\ Len(activePoints) = Len(points)
        /\ \A i \in 1..Len(points) :
             activePoints[i] = Point(stod(points[i].key[2]).val, stod(points[i].key[1]).val)
        /\ \A r \in Responses(dataset) :
             SameBag(r, eventarr) =>
                 createGraphics(r, 0, <<>>).points = points
                     /\ createGraphics(r, 0, <<>>).activePoints = activePoints

\* the records arrived as ("10.00","20.0"), ("10.0","9.5"), ("10.0","20.0") and
\* the list is in key order, which is neither arrival nor numeric order
C2_Witness ==
    /\ PassDone
    /\ eventarr = << Pool[3], Pool[2], Pool[1] >>
    /\ Len(points) = 3
    /\ points[1].key = KeyOf(Pool[1])
    /\ points[2].key = KeyOf(Pool[2])
    /\ points[3].key = KeyOf(Pool[3])
    /\ activePoints = << Point(2000, 1000), Point(950, 1000), Point(2000, 1000) >>

(* C3: after an aggregation pass that produced N >= 1 points the marker ids  *)
(* are exactly 0..N-1 in list order, without gap or repeat, and the marker  *)
(* carrying id i was created for the point stored at activePoints[i].       *)
C3_DenseMarkerIds ==
    (overlays # <<>> /\ Markers(overlays[1]) # <<>>) =>
        LET mk == Markers(overlays[1])
        IN  /\ Len(mk) = Len(activePoints)
            /\ \A i \in 1..Len(mk) : mk[i].id = i - 1 /\ mk[i].point = activePoints[i]

\* three markers, with count graphics between them in the overlay
C3_Witness ==
    /\ overlays # <<>>
    /\ Len(Markers(overlays[1])) = 3
    /\ Len(overlays[1]) > 3
    /\ Markers(overlays[1])[3].id = 2
    /\ Len(activePoints) = 3

RECURSIVE IterNext(_, _, _)
IterNext(s, n, k) == IF k = 0 THEN s ELSE IterNext(StepIndex(s, TRUE, n), n, k - 1)

(* C4: over a point list of length N >= 1 and from a cursor in [0, N),      *)
(* switchViews steps cyclically: next from N-1 gives 0, previous from 0     *)
(* gives N-1, N times next returns to the start, and next followed by       *)
(* previous leaves the index unchanged.                                     *)
C4_CyclicLaw ==
    [][ (op'.name = "switchViews" /\ Len(activePoints) >= 1 /\ InRange(currIndex)) =>
            LET N == Len(activePoints)
            IN  /\ currIndex' = IF op'.next THEN (currIndex + 1) % N
                                            ELSE (currIndex + N - 1) % N
                /\ focus' = activePoints[currIndex' + 1]
                /\ StepIndex(N - 1, TRUE, N) = 0
                /\ StepIndex(0, FALSE, N) = N - 1
                /\ \A s \in 0..(N - 1) :
                     /\ IterNext(s, N, N) = s
                     /\ StepIndex(StepIndex(s, TRUE, N), FALSE, N) = s ]_vars

\* a next step that wrapped to point 0 of a list of three points
C4_Witness ==
    /\ op.name = "switchViews"
    /\ op.next
    /\ ~oob
    /\ Len(activePoints) = 3
    /\ currIndex = 0
    /\ focus = activePoints[1]

\* searchHandler has been called at least once
Searched == lastPage >= 0

(* C5: a search that produces a point list resets the cursor to index 0     *)
(* and focuses point 0, so the next switchViews(true) focuses index 1 mod N.*)
(* searchHandler focuses activePoints[0] and leaves currIndex as it was.    *)
C5_SearchResetsCursor ==
    (op.name = "searchHandler" /\ status = "running" /\ ~oob /\ activePoints # <<>>) =>
        /\ currIndex = 0
        /\ focus = activePoints[1]
        /\ StepIndex(currIndex, TRUE, Len(activePoints)) = 1 % Len(activePoints)

(* C6: results is reset to 0 exactly by a search with page == 0, before     *)
(* that page's count is added, and accumulates over pages > 0.              *)
(* searchHandler resets on page > 0 and accumulates on page == 0.           *)
C6_ResetOnPageZero ==
    [][ op'.name = "searchHandler" =>
            results' = (IF op'.page = 0 THEN 0 ELSE results) + Len(eventarr') ]_vars

(* C7: checkPage(true) returns -1 without a probe fetch whenever the        *)
(* current page returned fewer than 20 results, 0 results included.         *)
(* checkPage tests results % 20 == 0 on the running counter.                *)
C7_ShortPageNoProbe ==
    (op.name = "checkPage" /\ op.next /\ Searched /\ Len(eventarr) < PageSize) =>
        op.ret = -1 /\ ~op.probed

(* C8: when the page p last searched was exactly full, checkPage(true)      *)
(* returns p + 1 if and only if the probe returns at least one record, and  *)
(* -1 if it returns none.                                                   *)
C8_NextPageOfFullPage ==
    (op.name = "checkPage" /\ op.next /\ Searched /\ Len(eventarr) = PageSize) =>
        /\ op.probed
        /\ op.pSize >= 1 => op.ret = lastPage + 1
        /\ op.pSize = 0 => op.ret = -1

(* C9: for the page p last passed to searchHandler, checkPage(false)        *)
(* returns p - 1 if p > 0 and -1 if p = 0, full page or not, without a      *)
(* remote call.                                                             *)
C9_PreviousPage ==
    (op.name = "checkPage" /\ ~op.next /\ Searched) =>
        /\ op.ret = IF lastPage > 0 THEN lastPage - 1 ELSE -1
        /\ ~op.probed

(* C10: when the current page is exactly full, checkPage(true) probes with  *)
(* limit 1 at offset (page + 1) * 20, page being the current page index.    *)
C10_ProbeOffset ==
    (op.name = "checkPage" /\ op.next /\ Searched /\ Len(eventarr) = PageSize /\ op.probed) =>
        /\ op.pLimit = 1
        /\ op.pOffset = (lastPage + 1) * PageSize

\* an identify task is in flight that delivers a graphic
HitPending == pending # NoTask /\ ~pending[1].null /\ pending[1].graphics # <<>>

\* the step is the completion of an identify task that delivers a graphic
ClickResolved == op'.name = "identifyCompleted" /\ HitPending

(* C11: when a click resolves to a marker with a valid id i, the cursor     *)
(* index becomes i and point i is focused, so that the following            *)
(* switchViews(true) focuses (i + 1) mod N and switchViews(false)           *)
(* (i - 1) mod N.  The lambda focuses activePoints[i] and leaves currIndex. *)
C11_ClickSetsCursor ==
    [][ (ClickResolved /\ IsMarker(pending[1].graphics[1])
            /\ InRange(pending[1].graphics[1].id)) =>
            LET i == pending[1].graphics[1].id
                N == Len(activePoints)
            IN  /\ focus' = activePoints[i + 1]
                /\ currIndex' = i
                /\ StepIndex(currIndex', TRUE, N) = (i + 1) % N
                /\ StepIndex(currIndex', FALSE, N) = (i + N - 1) % N ]_vars

(* C12: a click result whose marker id is not in [0, N) of the current list *)
(* (an id of a superseded pass) is ignored: no point is focused, no state   *)
(* changes and activePoints is not read out of range.                       *)
C12_StaleClickIgnored ==
    [][ (ClickResolved /\ ~InRange(IdToInt(pending[1].graphics[1]))) =>
            UNCHANGED <<focus, currIndex, activePoints, overlays, results, oob, status>> ]_vars

(* C13: with an empty point list switchViews(true) and switchViews(false)   *)
(* are no-ops: no point is focused, activePoints is not read and the cursor *)
(* is unchanged.                                                            *)
C13_EmptyListNoOp ==
    [][ (op'.name = "switchViews" /\ activePoints = <<>>) =>
            UNCHANGED <<focus, currIndex, oob, status>> ]_vars

\* the points of the map pts, in map order
PointsOf(pts) ==
    [i \in 1..Len(pts) |-> Point(stod(pts[i].key[2]).val, stod(pts[i].key[1]).val)]

(* C14: every aggregation pass replaces the point list in full: after a     *)
(* search activePoints is exactly the aggregate of the records that search  *)
(* fetched; a search that fetched no record leaves an empty list and        *)
(* focuses nothing.  createGraphics returns before the clear when the map   *)
(* is empty, and searchHandler focuses activePoints[0] regardless.          *)
C14_PassReplacesList ==
    [][ (op'.name = "searchHandler" /\ AllParsable(eventarr')) =>
            /\ activePoints' = PointsOf(points')
            /\ Len(activePoints') = Cardinality(KeysOf(eventarr'))
            /\ eventarr' = <<>> => (activePoints' = <<>> /\ UNCHANGED <<focus, oob>>) ]_vars

(* C15: when the fetch of a search fails the session stays in its previous  *)
(* Loaded state: the rendered markers, the point list and the cursor index  *)
(* are as before the search.  searchHandler clears the overlays whatever    *)
(* get_events delivered.                                                    *)
C15_FailedFetchKeepsState ==
    [][ (op'.name = "searchHandler" /\ op'.failed) =>
            UNCHANGED <<overlays, activePoints, currIndex>> ]_vars

GoodRecords(evs) == SelectSeq(evs, Parsable)

(* C16: a record whose lat or lng is not a decimal number is dropped from   *)
(* the aggregate without aborting the pass: the other records of the input *)
(* are aggregated, given ids and stored in activePoints, and the pass       *)
(* completes.  std::stod throws inside the marker loop and nothing catches. *)
C16_BadRecordDropped ==
    (op.name \in {"setMapView", "searchHandler"} /\ ~AllParsable(eventarr)) =>
        /\ status = "running"
        /\ overlays # <<>>
        /\ Len(Markers(overlays[1])) = Cardinality(KeysOf(GoodRecords(eventarr)))
        /\ activePoints = PointsOf(CountPoints(GoodRecords(eventarr)))

(* C17: switchViews makes no remote call and changes only the cursor: the   *)
(* point list, the results-seen counter, the rendered markers and the       *)
(* request parameters are unchanged by any step.                            *)
C17_StepFrame ==
    [][ op'.name = "switchViews" =>
            UNCHANGED <<activePoints, results, overlays, params, eventarr, points,
                        lastPage, pending>> ]_vars

\* a next step from point 0 to point 1 of a loaded page of 19 records
C17_Witness ==
    /\ op.name = "switchViews"
    /\ op.next
    /\ ~oob
    /\ currIndex = 1
    /\ results = PageSize - 1
    /\ Len(activePoints) = 2
    /\ focus = activePoints[2]
    /\ overlays # <<>>
    /\ Len(Markers(overlays[1])) = 2

(* C18: no cursor step or click resolution observes a partially rebuilt     *)
(* point list: whenever a handler can run next, activePoints is the         *)
(* complete list it was before the step or the complete list of the pass    *)
(* the step made, never a cleared or partly filled one.                     *)
C18_ListAtomic ==
    [][ (status' = "running" /\ m_mapView' = "view") =>
            \/ activePoints' = activePoints
            \/ /\ op'.name \in {"setMapView", "searchHandler"}
               /\ points' # <<>>
               /\ Len(activePoints') = Len(points')
               /\ \A i \in 1..Len(points') :
                    LET lat == stod(points'[i].key[1])
                        lng == stod(points'[i].key[2])
                    IN  lat.ok /\ lng.ok /\ activePoints'[i] = Point(lng.val, lat.val) ]_vars

\* a cursor step on the list of a search that replaced the list of the load
C18_Witness ==
    /\ status = "running"
    /\ op.name = "switchViews"
    /\ ~oob
    /\ Searched
    /\ eventarr # <<>>
    /\ Len(activePoints) = 3
    /\ activePoints = PointsOf(points)
    /\ currIndex = 2

(* C19: every index used to read activePoints (0 in searchHandler, the      *)
(* wrapped index in switchViews, the clicked graphic's id in the click      *)
(* handler) is in [0, activePoints.size()).                                 *)
C19_ReadsInRange == ~oob

\* position in the point list of the point the j-th graphic of gr was drawn for
OwnerOf(gr, j) == Len(Markers(SubSeq(gr, 1, j)))

(* C20: every graphic drawn for a point (marker, count circle, count text)  *)
(* resolves on click to that point: for a graphic drawn for the point at    *)
(* position i the click handler focuses activePoints[i].  Circle and text   *)
(* carry no "id" property, which reads as 0.                                *)
C20_GraphicResolvesToOwnPoint ==
    [][ (ClickResolved /\ overlays # <<>>
            /\ \E j \in 1..Len(overlays[1]) : overlays[1][j] = pending[1].graphics[1]) =>
            \E j \in 1..Len(overlays[1]) :
                /\ overlays[1][j] = pending[1].graphics[1]
                /\ OwnerOf(overlays[1], j) <= Len(activePoints)
                /\ focus' = activePoints[OwnerOf(overlays[1], j)] ]_vars

====
